---- MODULE Spec2Model ----
(***************************************************************************)
(* Model of server/app.py: the /chat handler, the REGISTER_PATIENT_JSON    *)
(* marker codec and dispatch (maybe_trigger_rpa), the history window       *)
(* (format_history_for_llm) and the ID OCR helper (run_id_ocr).            *)
(*                                                                         *)
(* Text is modelled as a sequence of tokens, each token standing for a     *)
(* fixed literal: "marker" is `~~~REGISTER_PATIENT_JSON:`, "tildes" is     *)
(* `~~~`, "ws" is a blank, "nl" is a line break, "txt" is the literal      *)
(* `not-json`, and a "json" token is the serialisation of one JSON         *)
(* document.  A Python dict is a function over a fixed key universe whose  *)
(* value Absent marks a key that is not in the dict.                       *)
(***************************************************************************)
EXTENDS Integers, Sequences, FiniteSets, TLC

VARIABLES
  \* ---- the running server (specification Spec) ----
  request,      \* the request body of the last /chat call
  llm,          \* what the language model did in the last /chat call, if called
  response,     \* what the last /chat call gave back to the HTTP layer
  endpoint,     \* number of POSTs the registration endpoint has received
  parsed_turns, \* number of turns whose honoured marker payload parsed
  turns,        \* number of /chat calls served
  \* ---- direct calls of the helpers (specification SpecCalls) ----
  pc,           \* "idle", "rpa", "history", "ocr" and their "_done" stages
  answer,       \* argument of maybe_trigger_rpa
  rpa_ret,      \* result of maybe_trigger_rpa
  messages,     \* argument of format_history_for_llm
  max_turns,    \* argument of format_history_for_llm
  transcript,   \* result of format_history_for_llm
  content,      \* argument of run_id_ocr and the completion the vision model gives
  ocr_ret       \* result of run_id_ocr

vars == <<request, llm, response, endpoint, parsed_turns, turns,
          pc, answer, rpa_ret, messages, max_turns, transcript, content, ocr_ret>>

serverVars == <<request, llm, response, endpoint, parsed_turns, turns>>
callVars == <<pc, answer, rpa_ret, messages, max_turns, transcript, content, ocr_ret>>

----------------------------------------------------------------------------
\* Bounds of the model.
MaxLen == 5      \* tokens in a reply handed to maybe_trigger_rpa
MaxMsgs == 3     \* messages in a history handed to format_history_for_llm
MaxK == 3        \* largest max_turns tried
MaxTurns == 2    \* /chat calls in a run of the server

----------------------------------------------------------------------------
\* Python values.
Absent == "<absent>"     \* the key is not in the dict
None == "null"           \* Python None / JSON null
EmptyStr == ""

Truthy(v) == v \notin {Absent, None, EmptyStr}

\* a or b
PyOr(a, b) == IF Truthy(a) THEN a ELSE b

\* d.get(k)
Get(d, k) == IF d[k] = Absent THEN None ELSE d[k]

Keys(d) == {k \in DOMAIN d : d[k] # Absent}

----------------------------------------------------------------------------
\* The marker payload schema.
PlainKeys == {"firstName", "lastName", "gender", "phone", "country", "causeOfInfertility"}
AliasKeys == {"additionalDetails", "additionalInfo", "dob", "dateOfBirth"}
AllKeys == PlainKeys \cup AliasKeys
ExternalKeys == PlainKeys \cup {"additionalInfo", "dateOfBirth"}

EmptyDict == [k \in AllKeys |-> Absent]

\* The distinct value each key carries when it carries one.
ValueOf == [firstName |-> "Ana", lastName |-> "Lee", gender |-> "F", phone |-> "555",
            country |-> "IN", causeOfInfertility |-> "PCOS",
            additionalDetails |-> "details", additionalInfo |-> "info",
            dob |-> "1990/01/02", dateOfBirth |-> "1991/03/04"]

----------------------------------------------------------------------------
\* JSON documents and text.
NoDoc == [kind |-> "none", obj |-> EmptyDict]
ObjectDoc(d) == [kind |-> "object", obj |-> d]
ArrayDoc == [kind |-> "array", obj |-> EmptyDict]
StringDoc == [kind |-> "string", obj |-> EmptyDict]

Tok(t) == [t |-> t, doc |-> NoDoc]
JsonTok(d) == [t |-> "json", doc |-> d]

marker == Tok("marker")      \* line 236: "~~~REGISTER_PATIENT_JSON:"
tildes == Tok("tildes")      \* "~~~"
ws == Tok("ws")
nl == Tok("nl")
txt == Tok("txt")

\* "~~~" in text: both the closing tildes and the marker carry the three tildes.
HasTildes(tok) == tok.t \in {"tildes", "marker"}

\* Mutant: the marker literal cut down to its three leading tildes.
IsMarker_AnyTildes(tok) == tok.t \in {"marker", "tildes"}

\* line 236: the token is the marker literal
IsMarker(tok) == tok.t = "marker"

\* marker in text
HasMarker(text) == \E i \in 1..Len(text) : IsMarker(text[i])

IndexOf(text, P(_)) == CHOOSE i \in 1..Len(text) : P(text[i]) /\ \A j \in 1..(i-1) : ~P(text[j])

IsNl(tok) == tok.t = "nl"
IsWs(tok) == tok.t \in {"ws", "nl"}

\* text.split(marker, 1)[1]
AfterMarker(text) == SubSeq(text, IndexOf(text, IsMarker) + 1, Len(text))

\* text.split("~~~", 1)[0]
BeforeTildes(text) ==
  IF \E i \in 1..Len(text) : HasTildes(text[i])
  THEN SubSeq(text, 1, IndexOf(text, HasTildes) - 1)
  ELSE text

RECURSIVE lstrip(_)
lstrip(text) == IF text # <<>> /\ IsWs(Head(text)) THEN lstrip(Tail(text)) ELSE text

RECURSIVE rstrip(_)
rstrip(text) ==
  IF text # <<>> /\ IsWs(text[Len(text)]) THEN rstrip(SubSeq(text, 1, Len(text) - 1)) ELSE text

\* text.strip()
strip(text) == rstrip(lstrip(text))

\* text.splitlines(): a line break ends a line; a trailing break opens no empty line.
RECURSIVE splitlines(_)
splitlines(text) ==
  IF text = <<>> THEN <<>>
  ELSE IF \E i \in 1..Len(text) : IsNl(text[i])
       THEN LET i == IndexOf(text, IsNl)
            IN <<SubSeq(text, 1, i - 1)>> \o splitlines(SubSeq(text, i + 1, Len(text)))
       ELSE <<text>>

\* json.loads(text): surrounding blanks are skipped, then exactly one document
\* must remain; anything else is a JSONDecodeError.
json_loads(text) ==
  LET core == strip(text)
  IN IF Len(core) = 1 /\ core[1].t = "json"
     THEN [ok |-> TRUE, value |-> core[1].doc]
     ELSE [ok |-> FALSE, value |-> NoDoc]

----------------------------------------------------------------------------
\* maybe_trigger_rpa
RPA_ENDPOINT == "https://prd-pristine.api.novocuris.org/api/workflows/patient-registration"

\* What httpx.post meets: a response with a status code, or a transport failure.
TransportFailure == [failed |-> TRUE, status_code |-> 0, text |-> ""]
HttpResponse(code) == [failed |-> FALSE, status_code |-> code, text |-> "response body"]

\* line 276: final_body = {"patientData": mapped}
final_body(m) == [patientData |-> m]

\* line 237: meta = {}; keys holds the keys set so far.
EmptyMeta ==
  [keys |-> {}, body |-> final_body(EmptyDict), rpa_error |-> "", raw_json_part |-> <<>>,
   rpa_warning |-> "", rpa_status_code |-> 0, rpa_ok |-> FALSE, rpa_response |-> ""]

Returned(meta, posted) == [raised |-> "none", meta |-> meta, posted |-> posted]
Raised(exc) == [raised |-> exc, meta |-> EmptyMeta, posted |-> <<>>]

\* lines 245-249: the payload text of a line that holds the marker
json_part(line) ==
  LET after == strip(AfterMarker(line))
  IN IF \E i \in 1..Len(after) : HasTildes(after[i]) THEN strip(BeforeTildes(after)) ELSE after

\* Mutant: the decode failure keeps the message and loses the raw payload text.
DecodeFailure_NoRaw(part) ==
  [EmptyMeta EXCEPT !.keys = {"rpa_error"},
                    !.rpa_error = "Could not parse REGISTER_PATIENT_JSON payload"]

\* lines 256-259
DecodeFailure(part) ==
  [EmptyMeta EXCEPT !.keys = {"rpa_error", "raw_json_part"},
                    !.rpa_error = "Could not parse REGISTER_PATIENT_JSON payload",
                    !.raw_json_part = part]

\* Mutant: only the keys the payload holds are copied.
mapped_Sparse(payload) ==
  LET dob == PyOr(Get(payload, "dob"), Get(payload, "dateOfBirth"))
  IN [k \in AllKeys |->
        IF k \in PlainKeys THEN payload[k]
        ELSE IF k = "additionalInfo"
             THEN PyOr(Get(payload, "additionalDetails"), Get(payload, "additionalInfo"))
        ELSE IF k = "dateOfBirth" THEN (IF Truthy(dob) THEN dob ELSE Absent)
        ELSE Absent]

\* lines 262-274: the external field mapping
mapped(payload) ==
  LET dob == PyOr(Get(payload, "dob"), Get(payload, "dateOfBirth"))
  IN [k \in AllKeys |->
        IF k \in PlainKeys THEN Get(payload, k)
        ELSE IF k = "additionalInfo"
             THEN PyOr(Get(payload, "additionalDetails"), Get(payload, "additionalInfo"))
        ELSE IF k = "dateOfBirth" THEN (IF Truthy(dob) THEN dob ELSE None)
        ELSE Absent]

\* lines 279-295: one POST, no retry
Dispatch(body, resp) ==
  LET meta == [EmptyMeta EXCEPT !.keys = {"body"}, !.body = body]
  IN IF RPA_ENDPOINT = ""
     THEN Returned([meta EXCEPT !.keys = @ \cup {"rpa_warning"},
                                !.rpa_warning = "RPA_ENDPOINT not configured"], <<>>)
     ELSE IF resp.failed
     THEN Returned([meta EXCEPT !.keys = @ \cup {"rpa_error"},
                                !.rpa_error = "Error calling RPA endpoint"],
                   <<[json |-> body, resp |-> resp]>>)
     ELSE Returned([meta EXCEPT !.keys = @ \cup {"rpa_status_code", "rpa_ok", "rpa_response"},
                                !.rpa_status_code = resp.status_code,
                                !.rpa_ok = (200 <= resp.status_code /\ resp.status_code < 300),
                                !.rpa_response = resp.text],
                   <<[json |-> body, resp |-> resp]>>)

\* Mutant: a payload that fails to decode is skipped like an empty one, and the
\* scan goes on to the next line.
RECURSIVE ScanLines_SkipBad(_, _)
ScanLines_SkipBad(lines, resp) ==
  IF lines = <<>> THEN Returned(EmptyMeta, <<>>)
  ELSE LET line == Head(lines)
       IN IF ~HasMarker(line) THEN ScanLines_SkipBad(Tail(lines), resp)
          ELSE LET part == json_part(line)
                   parsed == json_loads(part)
               IN IF part = <<>> \/ ~parsed.ok THEN ScanLines_SkipBad(Tail(lines), resp)
                  ELSE IF parsed.value.kind # "object" THEN Raised("AttributeError")
                  ELSE Dispatch(final_body(mapped(parsed.value.obj)), resp)

\* lines 242-297: the loop over the lines of the reply
RECURSIVE ScanLines(_, _)
ScanLines(lines, resp) ==
  IF lines = <<>> THEN Returned(EmptyMeta, <<>>)
  ELSE LET line == Head(lines)
       IN IF ~HasMarker(line) THEN ScanLines(Tail(lines), resp)
          ELSE LET part == json_part(line)
                   parsed == json_loads(part)
               IN IF part = <<>> THEN ScanLines(Tail(lines), resp)
                  ELSE IF ~parsed.ok THEN Returned(DecodeFailure(part), <<>>)
                  ELSE IF parsed.value.kind # "object" THEN Raised("AttributeError")
                  ELSE Dispatch(final_body(mapped(parsed.value.obj)), resp)

maybe_trigger_rpa(reply, resp) ==
  IF ~HasMarker(reply) THEN Returned(EmptyMeta, <<>>)
  ELSE ScanLines(splitlines(reply), resp)

----------------------------------------------------------------------------
\* Messages.  A message dict is [dict |-> TRUE, role, content]: role Absent when
\* the key is missing, content NoneText when it is None or missing; a list
\* element that is no dict has dict = FALSE.
NoneText == <<Tok(None)>>
Msg(role, text) == [dict |-> TRUE, role |-> role, content |-> text]
NonDict == [dict |-> FALSE, role |-> Absent, content |-> NoneText]

\* msg.get("content") or ""
ContentOrEmpty(msg) == IF msg.content = NoneText THEN <<>> ELSE msg.content

\* str.capitalize(): first letter upper case, the rest lower case
capitalize(role) ==
  IF role = "system" THEN "System"
  ELSE IF role = "TOOL" THEN "Tool"
  ELSE IF role = "user" THEN "User"
  ELSE IF role = "assistant" THEN "Assistant"
  ELSE role

\* messages[-max_turns:], as Python slices: a negative start counts from the end
\* and is clamped to the beginning; a start of -0 is 0.
SliceFrom(seq, start) ==
  LET s0 == IF start < 0 THEN start + Len(seq) ELSE start
      s1 == IF s0 < 0 THEN 0 ELSE IF s0 > Len(seq) THEN Len(seq) ELSE s0
  IN SubSeq(seq, s1 + 1, Len(seq))

\* lines 155-164: the line one message contributes, <<>> when it is skipped
HistoryLine(msg) ==
  LET role == IF msg.role = Absent THEN "user" ELSE msg.role
      text == strip(ContentOrEmpty(msg))
      label == IF role = "user" THEN "User"
               ELSE IF role = "assistant" THEN "Assistant"
               ELSE capitalize(role)
  IN IF text = <<>> THEN <<>> ELSE <<Tok(label), Tok(": ")>> \o text

\* "\n".join(lines)
RECURSIVE join(_)
join(lines) ==
  IF lines = <<>> THEN <<>>
  ELSE IF Len(lines) = 1 THEN lines[1]
  ELSE lines[1] \o <<nl>> \o join(Tail(lines))

RECURSIVE HistoryLines(_)
HistoryLines(msgs) ==
  IF msgs = <<>> THEN <<>>
  ELSE LET l == HistoryLine(Head(msgs))
       IN (IF l = <<>> THEN <<>> ELSE <<l>>) \o HistoryLines(Tail(msgs))

\* lines 145-166; a list element that is no dict has no .get
format_history_for_llm(msgs, k) ==
  LET kept == SliceFrom(msgs, 0 - k)
  IN IF \E i \in 1..Len(kept) : ~kept[i].dict
     THEN [raised |-> "AttributeError", value |-> <<>>]
     ELSE [raised |-> "none", value |-> join(HistoryLines(kept))]

\* lines 138-143
RECURSIVE get_last_user_message(_)
get_last_user_message(msgs) ==
  IF msgs = <<>> THEN [raised |-> "none", value |-> <<>>]
  ELSE LET msg == msgs[Len(msgs)]
       IN IF ~msg.dict THEN [raised |-> "AttributeError", value |-> <<>>]
          ELSE IF msg.role = "user" THEN [raised |-> "none", value |-> strip(ContentOrEmpty(msg))]
          ELSE get_last_user_message(SubSeq(msgs, 1, Len(msgs) - 1))

----------------------------------------------------------------------------
\* run_id_ocr.  The completion's content is None, a text that is no JSON, or the
\* serialisation of a JSON document.
OcrInKeys == {"firstName", "lastName", "dob", "gender", "country", "raw"}
OcrOutKeys == {"firstName", "lastName", "dateOfBirth", "gender", "country"}
OcrKeys == OcrInKeys \cup OcrOutKeys

EmptyOcrDict == [k \in OcrKeys |-> Absent]

NoneContent == [kind |-> "none", text |-> "", obj |-> EmptyOcrDict]
TextContent(t) == [kind |-> "text", text |-> t, obj |-> EmptyOcrDict]
ArrayContent == [kind |-> "array", text |-> "[]", obj |-> EmptyOcrDict]
ObjectContent(t, d) == [kind |-> "object", text |-> t, obj |-> d]

OcrRaised(exc) == [raised |-> exc, value |-> EmptyOcrDict]

\* lines 213-227
run_id_ocr(image_data_url, completion) ==
  IF ~Truthy(image_data_url) THEN OcrRaised("ValueError")
  ELSE IF completion.failed THEN OcrRaised("APIError")
  ELSE LET c == completion.content
       IN IF c.kind = "none" THEN OcrRaised("TypeError")
          ELSE IF c.kind = "array" THEN OcrRaised("AttributeError")
          ELSE LET data == IF c.kind = "object" THEN c.obj
                           ELSE [EmptyOcrDict EXCEPT !["raw"] = c.text]
               IN [raised |-> "none",
                   value |-> [k \in OcrKeys |->
                                IF k = "dateOfBirth" THEN Get(data, "dob")
                                ELSE IF k \in OcrOutKeys THEN Get(data, k)
                                ELSE Absent]]

----------------------------------------------------------------------------
\* Inputs tried.
FullPayload == [k \in AllKeys |-> IF k \in ExternalKeys THEN ValueOf[k] ELSE Absent]

\* Marker payload objects: a plain key is missing or carries its value; the four
\* aliased keys are missing, null, empty or carry their value.
AliasChoice(k, c) == IF c = 0 THEN Absent ELSE IF c = 1 THEN None ELSE IF c = 2 THEN EmptyStr ELSE ValueOf[k]

Payloads ==
  {[k \in AllKeys |-> IF k \in PlainKeys THEN (IF k \in present THEN ValueOf[k] ELSE Absent)
                                          ELSE AliasChoice(k, c[k])] :
     present \in SUBSET PlainKeys, c \in [AliasKeys -> 0..3]}

Alphabet == {marker, tildes, ws, nl, txt, JsonTok(ObjectDoc(FullPayload)), JsonTok(ArrayDoc)}

Texts(n) == UNION {[1..m -> Alphabet] : m \in 0..n}

\* Replies of the language model: every text of at most MaxLen tokens, and the
\* documented last line `~~~REGISTER_PATIENT_JSON: {...}~~~` for every payload.
Replies ==
  Texts(MaxLen)
    \cup {<<marker, ws, JsonTok(ObjectDoc(p)), tildes>> : p \in Payloads}
    \cup {<<marker, JsonTok(StringDoc)>>}

StatusCodes == {200, 299, 300, 404, 500}
Responses == {HttpResponse(c) : c \in StatusCodes} \cup {TransportFailure}

----------------------------------------------------------------------------
\* The state of the server before any request.
NoRequest ==
  [body |-> "none", messages |-> [kind |-> "absent", items |-> <<>>],
   task |-> Absent, image |-> Absent]
EmptyResponse ==
  [status |-> "none", keys |-> {}, reply |-> <<>>, rpa |-> EmptyMeta,
   ocr_data |-> EmptyOcrDict, error |-> ""]
NoResponse == EmptyResponse

NoLlmCall == [called |-> FALSE, ok |-> FALSE, content |-> <<>>]

ServerInit ==
  /\ request = NoRequest
  /\ llm = NoLlmCall
  /\ response = NoResponse
  /\ endpoint = 0
  /\ parsed_turns = 0
  /\ turns = 0

\* Message histories tried.
Roles == {Absent, "user", "assistant", "TOOL"}
Contents == {NoneText, <<ws>>, <<ws, txt, ws>>}
Messages == {Msg(r, c) : r \in Roles, c \in Contents}
Histories(n) == UNION {[1..m -> Messages] : m \in 0..n}

\* OCR completions tried.
OcrValueOf == [firstName |-> "Ana", lastName |-> "Lee", dob |-> "1990/01/02",
               gender |-> "F", country |-> "IN", raw |-> "raw", dateOfBirth |-> "1991/03/04"]
OcrChoice(k, c) == IF c = 0 THEN Absent ELSE IF c = 1 THEN None ELSE OcrValueOf[k]
OcrObjects ==
  {[k \in OcrKeys |-> IF k \in OcrInKeys \ {"raw"} THEN OcrChoice(k, c[k]) ELSE Absent] :
     c \in [OcrInKeys \ {"raw"} -> 0..2]}
OcrTexts == {"", "not-json", "I cannot read this image."}
OcrContents ==
  {NoneContent, ArrayContent} \cup {TextContent(t) : t \in OcrTexts}
    \cup {ObjectContent("{...}", d) : d \in OcrObjects}
Completions ==
  {[failed |-> FALSE, content |-> c] : c \in OcrContents}
    \cup {[failed |-> TRUE, content |-> NoneContent]}
Images == {EmptyStr, "data:image/jpeg;base64,AAAA"}

NoOcrCall == [image |-> EmptyStr, completion |-> [failed |-> TRUE, content |-> NoneContent]]
NoTranscript == [raised |-> "none", value |-> <<>>]
NoRpa == Returned(EmptyMeta, <<>>)

\* Direct calls of the helpers: Init draws the arguments, the action applies
\* the function.
CallsInit ==
  /\ ServerInit
  /\ rpa_ret = NoRpa /\ transcript = NoTranscript /\ ocr_ret = OcrRaised("none")
  /\ \/ /\ pc = "rpa" /\ answer \in Replies
        /\ messages = <<>> /\ max_turns = 0 /\ content = NoOcrCall
     \/ /\ pc = "history" /\ messages \in Histories(MaxMsgs) /\ max_turns \in 0..MaxK
        /\ answer = <<>> /\ content = NoOcrCall
     \/ /\ pc = "ocr" /\ content \in [image : Images, completion : Completions]
        /\ answer = <<>> /\ messages = <<>> /\ max_turns = 0

CallRpa ==
  /\ pc = "rpa"
  /\ \E resp \in Responses : rpa_ret' = maybe_trigger_rpa(answer, resp)
  /\ pc' = "rpa_done"
  /\ UNCHANGED <<answer, messages, max_turns, transcript, content, ocr_ret>>
  /\ UNCHANGED serverVars

CallHistory ==
  /\ pc = "history"
  /\ transcript' = format_history_for_llm(messages, max_turns)
  /\ pc' = "history_done"
  /\ UNCHANGED <<answer, rpa_ret, messages, max_turns, content, ocr_ret>>
  /\ UNCHANGED serverVars

CallOcr ==
  /\ pc = "ocr"
  /\ ocr_ret' = run_id_ocr(content.image, content.completion)
  /\ pc' = "ocr_done"
  /\ UNCHANGED <<answer, rpa_ret, messages, max_turns, transcript, content>>
  /\ UNCHANGED serverVars

CallsNext == CallRpa \/ CallHistory \/ CallOcr

SpecCalls == CallsInit /\ [][CallsNext]_vars

----------------------------------------------------------------------------
\* Properties of maybe_trigger_rpa, stated on a finished direct call.

HoldsSentinel(line) == \E i \in 1..Len(line) : line[i].t = "marker"
HoldsPayload(line) == json_part(line) # <<>>

\* The lines of the reply that hold the sentinel, and those among them whose
\* extracted payload is not empty.
SentinelLines(reply) == SelectSeq(splitlines(reply), HoldsSentinel)
PayloadLines(reply) == SelectSeq(SentinelLines(reply), HoldsPayload)

\* The response the call met when it posted (any response when it did not).
RespMet == IF rpa_ret.posted # <<>> THEN rpa_ret.posted[1].resp ELSE TransportFailure

RpaDone == pc = "rpa_done"
Honoured == PayloadLines(answer)[1]
HonouredParse == json_loads(json_part(Honoured))
ParsedObject ==
  /\ RpaDone /\ PayloadLines(answer) # <<>>
  /\ HonouredParse.ok /\ HonouredParse.value.kind = "object"

\* C3: when the payload of the honoured marker line fails JSON decoding, the call
\* posts nothing and returns exactly a parse-failure message and the raw payload
\* text: no body, no status code, no success flag.
Thm_C3 ==
  (RpaDone /\ PayloadLines(answer) # <<>> /\ ~HonouredParse.ok) =>
     /\ rpa_ret.raised = "none"
     /\ rpa_ret.posted = <<>>
     /\ rpa_ret.meta.keys = {"rpa_error", "raw_json_part"}
     /\ rpa_ret.meta.rpa_error # ""
     /\ rpa_ret.meta.raw_json_part = json_part(Honoured)

Wit_C3 ==
  /\ RpaDone /\ PayloadLines(answer) # <<>> /\ ~HonouredParse.ok
  /\ rpa_ret.meta.raw_json_part = <<txt>>
  /\ Len(SentinelLines(answer)) = 1

\* C5 as stated: with two or more sentinel lines the outcome is the outcome of
\* the first sentinel line alone.
CE_C5 ==
  (RpaDone /\ Len(SentinelLines(answer)) >= 2) =>
     rpa_ret = maybe_trigger_rpa(SentinelLines(answer)[1], RespMet)

\* C5 amended: with two or more sentinel lines the outcome is the outcome of the
\* first sentinel line whose extracted payload is not empty (the empty outcome
\* when there is none); no later line is parsed or dispatched.
Thm_C5 ==
  (RpaDone /\ Len(SentinelLines(answer)) >= 2) =>
     /\ PayloadLines(answer) = <<>> => rpa_ret = Returned(EmptyMeta, <<>>)
     /\ PayloadLines(answer) # <<>> => rpa_ret = maybe_trigger_rpa(Honoured, RespMet)
     /\ Len(rpa_ret.posted) <= 1

Wit_C5 ==
  /\ RpaDone /\ Len(SentinelLines(answer)) >= 2
  /\ ~HoldsPayload(SentinelLines(answer)[1])
  /\ PayloadLines(answer) # <<>>
  /\ rpa_ret.posted # <<>>

\* C6: for a payload that parses to an object the remapped patientData has
\* exactly the eight external keys; a key whose internal counterparts are all
\* missing is null; dob and dateOfBirth both land under dateOfBirth.
Thm_C6 ==
  ParsedObject =>
     LET p == HonouredParse.value.obj
         m == rpa_ret.meta.body.patientData
     IN /\ rpa_ret.raised = "none"
        /\ "body" \in rpa_ret.meta.keys
        /\ Keys(m) = ExternalKeys
        /\ \A k \in PlainKeys : p[k] = Absent => m[k] = None
        /\ (p["additionalInfo"] = Absent /\ p["additionalDetails"] = Absent)
              => m["additionalInfo"] = None
        /\ (p["dob"] = Absent /\ p["dateOfBirth"] = Absent) => m["dateOfBirth"] = None
        /\ Truthy(p["dob"]) => m["dateOfBirth"] = p["dob"]
        /\ (~Truthy(p["dob"]) /\ Truthy(p["dateOfBirth"])) => m["dateOfBirth"] = p["dateOfBirth"]
        /\ \A i \in 1..Len(rpa_ret.posted) : rpa_ret.posted[i].json = rpa_ret.meta.body

Wit_C6 ==
  /\ ParsedObject
  /\ Keys(HonouredParse.value.obj) = {"firstName", "dob"}
  /\ rpa_ret.meta.body.patientData["dateOfBirth"] = ValueOf["dob"]
  /\ rpa_ret.meta.body.patientData["lastName"] = None
  /\ rpa_ret.posted # <<>>

\* C7 as stated: when the payload object holds every external key, each
\* canonical key of the remapped body carries the value the payload gave for it
\* (dateOfBirth the value given as dob or dateOfBirth).
CE_C7 ==
  (ParsedObject /\ ExternalKeys \subseteq Keys(HonouredParse.value.obj)) =>
     LET p == HonouredParse.value.obj
         m == rpa_ret.meta.body.patientData
     IN /\ \A k \in ExternalKeys \ {"dateOfBirth"} : m[k] = p[k]
        /\ m["dateOfBirth"] \in {p["dateOfBirth"], p["dob"]} \ {Absent}

\* C8: a reply with no sentinel in it gives the empty outcome and no POST.
Thm_C8 ==
  (RpaDone /\ \A i \in 1..Len(answer) : answer[i].t # "marker") =>
     rpa_ret = Returned(EmptyMeta, <<>>)

Wit_C8 ==
  /\ RpaDone
  /\ \A i \in 1..Len(answer) : answer[i].t # "marker"
  /\ \E i \in 1..Len(answer) : answer[i].t = "json" /\ answer[i].doc.kind = "object"
  /\ \E i \in 1..Len(answer) : answer[i].t = "tildes"

----------------------------------------------------------------------------
\* Properties of format_history_for_llm and run_id_ocr.

\* The last k elements of a sequence.
LastK(seq, k) == IF k >= Len(seq) THEN seq ELSE SubSeq(seq, Len(seq) - k + 1, Len(seq))

\* C9 as stated: for every k >= 0 the transcript is built from the last k
\* messages only.
CE_C9 ==
  pc = "history_done" =>
     /\ transcript.raised = "none"
     /\ transcript.value = join(HistoryLines(LastK(messages, max_turns)))

\* C10 as stated: when the collaborator's text is no JSON, run_id_ocr does not
\* fail and the mapping it returns carries the raw text under a key.
CE_C10 ==
  (pc = "ocr_done" /\ Truthy(content.image) /\ ~content.completion.failed
     /\ content.completion.content.kind = "text") =>
     /\ ocr_ret.raised = "none"
     /\ \E k \in OcrKeys : ocr_ret.value[k] = content.completion.content.text

----------------------------------------------------------------------------
\* The /chat handler.

\* A JSON value that is no string, where the code expects one.
NonString == "<number>"

\* The handler gave a JSON body with these top-level keys back.
Reply(text) == [EmptyResponse EXCEPT !.status = "returned", !.keys = {"reply"}, !.reply = text]
Error(text) == [EmptyResponse EXCEPT !.status = "returned", !.keys = {"error"}, !.error = text]
\* An exception left the handler.
Escaped(exc) == [EmptyResponse EXCEPT !.status = "raised", !.error = exc]

Outcome(resp, posted, parsed) ==
  [response |-> resp, posted |-> posted, parsed |-> parsed, llm |-> NoLlmCall]
LlmOutcome(resp, posted, parsed, env) ==
  [response |-> resp, posted |-> posted, parsed |-> parsed,
   llm |-> [called |-> TRUE, ok |-> env.llm_ok,
            content |-> IF env.llm_ok THEN env.llm_content ELSE <<>>]]

\* line 313: payload.get("messages") or []
MessagesOrEmpty(req) == IF req.messages.kind = "absent" THEN <<>> ELSE req.messages.items

\* lines 306-318: what the handler settles before it looks at the task;
\* "go" when it goes on.
Preamble(req) ==
  IF req.body = "not_json" THEN [Error("Invalid JSON body") EXCEPT !.keys = {"error", "raw"}]
  ELSE IF req.body = "non_object" THEN Escaped("AttributeError")
  ELSE IF req.task = NonString THEN Escaped("AttributeError")
  ELSE IF req.messages.kind = "string" THEN Error("Field 'messages' must be an array")
  ELSE [EmptyResponse EXCEPT !.status = "go"]

\* line 314: (payload.get("task") or "chat").lower()
task(req) ==
  IF ~Truthy(req.task) THEN "chat" ELSE IF req.task = "OCR" THEN "ocr" ELSE req.task

\* lines 323-334
OcrTask(req, completion) ==
  IF ~Truthy(req.image)
  THEN Error("For task='ocr' you must send an 'image' field (data URL).")
  ELSE LET r == run_id_ocr(req.image, completion)
       IN IF r.raised # "none" THEN Error("OCR failed")
          ELSE [EmptyResponse EXCEPT !.status = "returned", !.keys = {"ocr_data"},
                                     !.ocr_data = r.value]

DefaultAnswer == <<Tok("I don't know the answer from the available documents.")>>

\* Whether the honoured marker payload of a reply parsed.
PayloadParsed(reply) ==
  /\ PayloadLines(reply) # <<>>
  /\ json_loads(json_part(PayloadLines(reply)[1])).ok

\* lines 343-490: env is what the collaborators do in this turn
ChatTask(req, env) ==
  LET history == format_history_for_llm(MessagesOrEmpty(req), 20)
      reply == IF env.llm_content = <<>> THEN DefaultAnswer ELSE env.llm_content
      rpa == maybe_trigger_rpa(reply, env.resp)
  IN IF ~env.retriever_ok THEN Outcome(Error("Server error"), <<>>, FALSE)
     ELSE IF history.raised # "none" THEN Outcome(Error("Server error"), <<>>, FALSE)
     ELSE IF ~env.llm_ok THEN LlmOutcome(Error("Server error"), <<>>, FALSE, env)
     ELSE IF rpa.raised # "none"
          THEN LlmOutcome(Error("Server error"), <<>>, PayloadParsed(reply), env)
     ELSE LlmOutcome([EmptyResponse EXCEPT !.status = "returned",
                                           !.keys = {"reply", "usage", "sources", "rpa"},
                                           !.reply = reply, !.rpa = rpa.meta],
                     rpa.posted, PayloadParsed(reply), env)

\* lines 303-490
chat(req, env) ==
  LET pre == Preamble(req)
      user_text == get_last_user_message(MessagesOrEmpty(req))
  IN IF pre.status # "go" THEN Outcome(pre, <<>>, FALSE)
     ELSE IF task(req) = "ocr" THEN Outcome(OcrTask(req, env.completion), <<>>, FALSE)
     ELSE IF user_text.raised # "none" THEN Outcome(Escaped(user_text.raised), <<>>, FALSE)
     ELSE IF user_text.value = <<>>
          THEN Outcome(Reply(<<Tok("I didn't receive any user message to respond to.")>>),
                       <<>>, FALSE)
     ELSE ChatTask(req, env)

\* Requests and collaborator behaviours tried.
Items == {Msg("user", <<txt>>), Msg("user", <<ws>>), Msg("assistant", <<txt>>), NonDict}
MessageFields ==
  {[kind |-> "absent", items |-> <<>>], [kind |-> "string", items |-> <<>>]}
    \cup {[kind |-> "list", items |-> l] : l \in UNION {[1..m -> Items] : m \in 0..2}}
Tasks == {Absent, "ocr", "OCR", NonString}
ImageFields == {Absent, "data:image/jpeg;base64,AAAA"}
Requests ==
  {[NoRequest EXCEPT !.body = "not_json"], [NoRequest EXCEPT !.body = "non_object"]}
    \cup [body : {"object"}, messages : MessageFields, task : Tasks, image : ImageFields]

SparsePayload == [EmptyDict EXCEPT !["firstName"] = "Ana", !["dob"] = "1990/01/02"]
LlmContents ==
  { <<>>, <<txt>>,
    <<txt, nl, marker, ws, JsonTok(ObjectDoc(FullPayload)), tildes>>,
    <<marker, JsonTok(ObjectDoc(SparsePayload))>>,
    <<marker, txt>>,
    <<marker, JsonTok(ArrayDoc), tildes>>,
    <<marker, JsonTok(StringDoc), tildes>>,
    <<marker, nl, marker, JsonTok(ObjectDoc(FullPayload))>>,
    <<marker, JsonTok(ObjectDoc(FullPayload)), nl, marker, JsonTok(ObjectDoc(SparsePayload))>> }
ServerResponses == {HttpResponse(200), HttpResponse(500), TransportFailure}
ServerCompletions ==
  {[failed |-> TRUE, content |-> NoneContent]}
    \cup {[failed |-> FALSE, content |-> c] :
            c \in {NoneContent, ArrayContent, TextContent("not-json"),
                   ObjectContent("{...}", [EmptyOcrDict EXCEPT !["firstName"] = "Ana"])}}

NoEnv ==
  [retriever_ok |-> FALSE, llm_ok |-> FALSE, llm_content |-> <<>>,
   resp |-> TransportFailure, completion |-> NoOcrCall.completion]
OcrEnvs == {[NoEnv EXCEPT !.completion = c] : c \in ServerCompletions}
ChatEnvs ==
  {NoEnv, [NoEnv EXCEPT !.retriever_ok = TRUE]}
    \cup {[NoEnv EXCEPT !.retriever_ok = TRUE, !.llm_ok = TRUE, !.llm_content = c, !.resp = r] :
            c \in LlmContents, r \in ServerResponses}

\* Which collaborators the handler gets to call for a request.
Route(req) ==
  IF Preamble(req).status # "go" THEN "none"
  ELSE IF task(req) = "ocr" THEN (IF Truthy(req.image) THEN "ocr" ELSE "none")
  ELSE LET u == get_last_user_message(MessagesOrEmpty(req))
       IN IF u.raised # "none" \/ u.value = <<>> THEN "none" ELSE "chat"

Serve(req, env) ==
  LET out == chat(req, env)
  IN /\ request' = req
     /\ llm' = out.llm
     /\ response' = out.response
     /\ endpoint' = endpoint + Len(out.posted)
     /\ parsed_turns' = parsed_turns + (IF out.parsed THEN 1 ELSE 0)
     /\ turns' = turns + 1
     /\ UNCHANGED callVars

EarlyRequests == {req \in Requests : Route(req) = "none"}
OcrRequests == {req \in Requests : Route(req) = "ocr"}
ChatRequests == {req \in Requests : Route(req) = "chat"}

\* A /chat call that ends before any collaborator is called.
ChatEarly ==
  /\ turns < MaxTurns
  /\ \E req \in EarlyRequests : Serve(req, NoEnv)

\* A /chat call with task "ocr" that reaches the vision model.
ChatOcr ==
  /\ turns < MaxTurns
  /\ \E req \in OcrRequests : \E env \in OcrEnvs : Serve(req, env)

\* A /chat call that reaches the retrieval and language-model pipeline.
ChatTurn ==
  /\ turns < MaxTurns
  /\ \E req \in ChatRequests : \E env \in ChatEnvs : Serve(req, env)

Init ==
  /\ ServerInit
  /\ pc = "idle" /\ answer = <<>> /\ rpa_ret = NoRpa
  /\ messages = <<>> /\ max_turns = 0 /\ transcript = NoTranscript
  /\ content = NoOcrCall /\ ocr_ret = OcrRaised("none")

Next == ChatEarly \/ ChatOcr \/ ChatTurn

Spec == Init /\ [][Next]_vars

----------------------------------------------------------------------------
\* Properties of the /chat handler, stated on the last call served.

\* C1 as stated: in a turn where the language-model call succeeded, the response
\* carries the model's reply, whatever maybe_trigger_rpa then meets; a failure
\* shows only inside rpa, never as a response with error and no reply.
CE_C1 ==
  (turns > 0 /\ llm.called /\ llm.ok) =>
     /\ response.status = "returned"
     /\ "reply" \in response.keys
     /\ "error" \notin response.keys
     /\ response.reply = (IF llm.content = <<>> THEN DefaultAnswer ELSE llm.content)

\* C2 as stated: for every request body the handler returns a JSON response
\* with a reply, ocr_data or error field; no exception leaves the handler.
CE_C2 ==
  turns > 0 =>
     /\ response.status = "returned"
     /\ response.keys \cap {"reply", "ocr_data", "error"} # {}

\* C4 as stated: over any sequence of turns the number of POSTs the endpoint
\* received equals the number of turns whose marker payload parsed.
CE_C4 == endpoint = parsed_turns

====
